---- MODULE Spec2Model ----
(***************************************************************************)
(* Model of the two notebooks of Module1:                                  *)
(*   - "05 - Getting started with pandas": a tab-separated expression file *)
(*     is read into a table df, then columns and rows are selected,        *)
(*     sliced, filtered by a Boolean mask and concatenated;                *)
(*   - "03B - Installing pandas and scikit-learn (on Windows)": the        *)
(*     numbered installation steps and their import checks.                *)
(* A text is a sequence of one-character strings; a float is <<n>> and the *)
(* missing value NaN is <<>>; None is <<>> where a slice bound is omitted. *)
(***************************************************************************)
EXTENDS Integers, Sequences, FiniteSets, TLC

VARIABLES
    file,        \* the expression file on disk: [exists, lines]
    pc,          \* the next code cell of the pandas notebook to run
    err,         \* the exception that stopped the run, "none" if none
    ns,          \* names bound in the kernel's namespace
    out,         \* what the cells printed, one entry per print call
    df, sample, profile, gene, gene_expression, profile2,
    first_samples, last_samples, sel, A_only, Z_only, combined, messy,
    walkthrough, \* which of the two installation documents is followed
    ipc,         \* the position of the next step in that document
    active,      \* the active conda environment
    installed,   \* the packages installed in each conda environment
    imports      \* the import checks run so far, with their outcome

vars == <<file, pc, err, ns, out, df, sample, profile, gene, gene_expression,
          profile2, first_samples, last_samples, sel, A_only, Z_only,
          combined, messy, walkthrough, ipc, active, installed, imports>>

nbvars == <<file, pc, err, ns, out, df, sample, profile, gene, gene_expression,
            profile2, first_samples, last_samples, sel, A_only, Z_only,
            combined, messy>>

instvars == <<walkthrough, ipc, active, installed, imports>>

----------------------------------------------------------------------------
(* Bounds of the model *)

\* most data lines (genes) of a generated file
MaxGenes == 3
\* most sample columns of a generated file with freely chosen sample labels
MaxSamples == 2
\* most sample columns of a generated file with samples S01, S02, ... in order
MaxWide == 31

----------------------------------------------------------------------------
(* Texts *)

TAB == "\t"

Digits == <<"0", "1", "2", "3", "4", "5", "6", "7", "8", "9">>

\* code point of a character, for the ordering of labels
Ord(c) ==
    CASE c = TAB -> 9
      [] c = "." -> 46
      [] c \in {Digits[i] : i \in 1..10} ->
            47 + (CHOOSE i \in 1..10 : Digits[i] = c)
      [] c = "A" -> 65
      [] c = "B" -> 66
      [] c = "G" -> 71
      [] c = "S" -> 83
      [] c = "Z" -> 90
      [] c = "e" -> 101
      [] c = "n" -> 110
      [] c = "s" -> 115

Min(a, b) == IF a < b THEN a ELSE b

Max(a, b) == IF a > b THEN a ELSE b

\* s < t in the lexicographic order of code points (str.__lt__)
RECURSIVE TextLess(_, _)
TextLess(s, t) ==
    IF t = <<>> THEN FALSE
    ELSE IF s = <<>> THEN TRUE
    ELSE IF Head(s) = Head(t) THEN TextLess(Tail(s), Tail(t))
    ELSE Ord(Head(s)) < Ord(Head(t))

\* line.split(sep): the fields between the separators, empty ones kept
RECURSIVE Split(_, _)
Split(line, sep) ==
    IF \A i \in 1..Len(line) : line[i] # sep THEN <<line>>
    ELSE LET k == CHOOSE i \in 1..Len(line) :
                      line[i] = sep /\ \A j \in 1..(i - 1) : line[j] # sep
         IN  <<SubSeq(line, 1, k - 1)>> \o Split(SubSeq(line, k + 1, Len(line)), sep)

\* the inverse direction, used to write the generated files
RECURSIVE Join(_, _)
Join(fields, sep) ==
    IF Len(fields) = 0 THEN <<>>
    ELSE IF Len(fields) = 1 THEN fields[1]
    ELSE fields[1] \o <<sep>> \o Join(Tail(fields), sep)

DigitValue(c) == Ord(c) - 48

\* the number a run of decimal digits denotes
RECURSIVE DecimalValue(_)
DecimalValue(text) ==
    IF text = <<>> THEN 0
    ELSE 10 * DecimalValue(SubSeq(text, 1, Len(text) - 1))
            + DigitValue(text[Len(text)])

NaN == <<>>

IsNaN(x) == x = <<>>

\* the parser's conversion of a field to float64: an empty field is NaN
ParseFloat(text) == IF text = <<>> THEN NaN ELSE <<DecimalValue(text)>>

----------------------------------------------------------------------------
(* Tables (DataFrame) and labelled vectors (Series) *)

NoFrame == [index |-> <<>>, columns |-> <<>>, data |-> <<>>]

NoSeries == [index |-> <<>>, values |-> <<>>, name |-> <<>>]

None == <<>>

NRows(d) == Len(d.index)

NCols(d) == Len(d.columns)

\* DataFrame.shape
Shape(d) == <<NRows(d), NCols(d)>>

Labels(seq) == {seq[i] : i \in 1..Len(seq)}

\* Index.get_loc on a unique index: the position of a label
GetLoc(seq, key) == CHOOSE i \in 1..Len(seq) : seq[i] = key

\* Field with the position taken as 0-based
FieldFromZero(row, i) == IF i + 1 <= Len(row) THEN row[i + 1] ELSE <<>>

\* the field of a tokenised line, a missing trailing field being empty
Field(row, i) == IF i <= Len(row) THEN row[i] ELSE <<>>

\* pd.read_csv(expression_file, sep='\t', header=0, index_col=0): line 1 is the
\* header, field 1 of every later line is the row label, the other fields are
\* parsed as floats. A missing file, a file without lines and a data line after
\* the first with more fields than the header raise.
ReadCsv(f) ==
    IF ~f.exists THEN [error |-> "FileNotFoundError", value |-> NoFrame]
    ELSE IF f.lines = <<>> THEN [error |-> "EmptyDataError", value |-> NoFrame]
    ELSE
      LET rows   == [k \in 1..Len(f.lines) |-> Split(f.lines[k], TAB)]
          header == rows[1]
          n      == Len(rows) - 1
          m      == Len(header) - 1
      IN  IF \E k \in 3..Len(rows) : Len(rows[k]) > Len(header)
          THEN [error |-> "ParserError", value |-> NoFrame]
          ELSE [error |-> "none",
                value |-> [index   |-> [r \in 1..n |-> rows[r + 1][1]],
                           columns |-> [c \in 1..m |-> header[c + 1]],
                           data    |-> [r \in 1..n |->
                                          [c \in 1..m |->
                                             ParseFloat(Field(rows[r + 1], c + 1))]]]]

\* df[key]: the column labelled key as a Series named key
GetItem(d, key) ==
    IF key \notin Labels(d.columns) THEN [error |-> "KeyError", value |-> NoSeries]
    ELSE LET c == GetLoc(d.columns, key)
         IN  [error |-> "none",
              value |-> [index  |-> d.index,
                         values |-> [r \in 1..NRows(d) |-> d.data[r][c]],
                         name   |-> key]]

\* LocRow labelling the result with the wrong axis
LocRowWrongAxis(d, key) ==
    IF key \notin Labels(d.index) THEN [error |-> "KeyError", value |-> NoSeries]
    ELSE LET r == GetLoc(d.index, key)
         IN  [error |-> "none",
              value |-> [index  |-> d.index,
                         values |-> d.data[r],
                         name   |-> key]]

\* df.loc[key]: the row labelled key as a Series named key
LocRow(d, key) ==
    IF key \notin Labels(d.index) THEN [error |-> "KeyError", value |-> NoSeries]
    ELSE LET r == GetLoc(d.index, key)
         IN  [error |-> "none",
              value |-> [index  |-> d.columns,
                         values |-> d.data[r],
                         name   |-> key]]

\* SliceIndices with an omitted stop taken as -1
SliceIndicesStopMinusOne(start, stop, n) ==
    LET lo == IF start = None THEN 0
              ELSE IF start[1] < 0 THEN Max(n + start[1], 0)
              ELSE Min(start[1], n)
        hi == IF stop = None THEN Max(n - 1, 0)
              ELSE IF stop[1] < 0 THEN Max(n + stop[1], 0)
              ELSE Min(stop[1], n)
    IN  <<lo, hi>>

\* SliceIndices without the counting from the end of a negative bound
SliceIndicesNoNegative(start, stop, n) ==
    LET lo == IF start = None THEN 0 ELSE Min(Max(start[1], 0), n)
        hi == IF stop = None THEN n ELSE Min(Max(stop[1], 0), n)
    IN  <<lo, hi>>

\* slice(start, stop).indices(n) with step 1: the half-open range <<lo, hi>> of
\* 0-based positions; a negative bound counts from the end, both are clipped
SliceIndices(start, stop, n) ==
    LET lo == IF start = None THEN 0
              ELSE IF start[1] < 0 THEN Max(n + start[1], 0)
              ELSE Min(start[1], n)
        hi == IF stop = None THEN n
              ELSE IF stop[1] < 0 THEN Max(n + stop[1], 0)
              ELSE Min(stop[1], n)
    IN  <<lo, hi>>

\* the 1-based positions a slice selects, in order
SlicePositions(start, stop, n) ==
    LET r == SliceIndices(start, stop, n)
    IN  [i \in 1..Max(r[2] - r[1], 0) |-> r[1] + i]

\* the rows at the given positions, in the given order
TakeRows(d, pos) ==
    [index   |-> [i \in 1..Len(pos) |-> d.index[pos[i]]],
     columns |-> d.columns,
     data    |-> [i \in 1..Len(pos) |-> d.data[pos[i]]]]

\* the columns at the given positions, in the given order
TakeCols(d, pos) ==
    [index   |-> d.index,
     columns |-> [j \in 1..Len(pos) |-> d.columns[pos[j]]],
     data    |-> [r \in 1..NRows(d) |-> [j \in 1..Len(pos) |-> d.data[r][pos[j]]]]]

\* df.iloc[:, start:stop]
ILocCols(d, start, stop) ==
    TakeCols(TakeRows(d, SlicePositions(None, None, NRows(d))),
             SlicePositions(start, stop, NCols(d)))

\* df[:stop], a positional slice of the rows
HeadRows(d, stop) == TakeRows(d, SlicePositions(None, <<stop>>, NRows(d)))

\* df.loc[:, key]: the full slice of the rows, then the column labelled key
LocCol(d, key) == GetItem(TakeRows(d, SlicePositions(None, None, NRows(d))), key)

\* float equality: NaN equals nothing, itself included
FloatEq(x, y) == ~IsNaN(x) /\ ~IsNaN(y) /\ x = y

\* Series.equals: the same labels in the same order and, position by position,
\* equal values or NaN on both sides
SeriesEquals(a, b) ==
    /\ Len(a.index) = Len(b.index)
    /\ \A i \in 1..Len(a.index) : a.index[i] = b.index[i]
    /\ Len(a.values) = Len(b.values)
    /\ \A i \in 1..Len(a.values) :
          \/ FloatEq(a.values[i], b.values[i])
          \/ IsNaN(a.values[i]) /\ IsNaN(b.values[i])

\* str.endswith in the place of str.startswith
EndsWith(text, prefix) ==
    /\ Len(text) >= Len(prefix)
    /\ SubSeq(text, Len(text) - Len(prefix) + 1, Len(text)) = prefix

\* str.startswith
StartsWith(text, prefix) ==
    /\ Len(text) >= Len(prefix)
    /\ SubSeq(text, 1, Len(prefix)) = prefix

\* df.index.str.startswith(prefix): a Boolean array, one entry per row label
IndexStartsWith(d, prefix) == [i \in 1..NRows(d) |-> StartsWith(d.index[i], prefix)]

\* sel.sum(): the number of True entries
MaskSum(mask) == Cardinality({i \in 1..Len(mask) : mask[i]})

\* numpy.nonzero: the positions of the True entries, ascending
RECURSIVE Nonzero(_)
Nonzero(mask) ==
    IF Len(mask) = 0 THEN <<>>
    ELSE LET front == Nonzero(SubSeq(mask, 1, Len(mask) - 1))
         IN  IF mask[Len(mask)] THEN Append(front, Len(mask)) ELSE front

\* df.loc[mask] for a Boolean array with one entry per row: the rows whose
\* entry is True
LocMask(d, mask) == TakeRows(d, Nonzero(mask))

\* the labels of seq in ascending order (insertion sort by TextLess)
RECURSIVE SortLabels(_)
SortLabels(seq) ==
    IF Len(seq) <= 1 THEN seq
    ELSE LET rest == SortLabels(Tail(seq))
             x    == Head(seq)
             k    == Cardinality({i \in 1..Len(rest) : TextLess(rest[i], x)})
         IN  SubSeq(rest, 1, k) \o <<x>> \o SubSeq(rest, k + 1, Len(rest))

\* the entries of seq whose label is not in the set seen, in order
RECURSIVE Unseen(_, _)
Unseen(seq, seen) ==
    IF Len(seq) = 0 THEN <<>>
    ELSE IF Head(seq) \in seen THEN Unseen(Tail(seq), seen)
    ELSE <<Head(seq)>> \o Unseen(Tail(seq), seen \cup {Head(seq)})

\* Index.union, which aligns the other axis of an outer concat: an index equal
\* to the other, or the other one of an empty index, is kept as it is; otherwise
\* the labels of both, each once, sorted
UnionLabels(x, y) ==
    IF x = y \/ Len(y) = 0 THEN x
    ELSE IF Len(x) = 0 THEN y
    ELSE SortLabels(x \o Unseen(y, Labels(x)))

\* the cell of d at labels (g, s), NaN where d lacks the row or the column
CellAt(d, g, s) ==
    IF g \in Labels(d.index) /\ s \in Labels(d.columns)
    THEN d.data[GetLoc(d.index, g)][GetLoc(d.columns, s)]
    ELSE NaN

\* the row of d labelled g, all NaN where d lacks the label
RowAt(d, g) ==
    IF g \in Labels(d.index) THEN d.data[GetLoc(d.index, g)]
    ELSE [c \in 1..NCols(d) |-> NaN]

\* ConcatCols with join='inner': only the row labels both tables hold
ConcatColsInner(a, b) ==
    LET idx == Unseen(a.index, Labels(a.index) \ Labels(b.index))
    IN  [index   |-> idx,
         columns |-> a.columns \o b.columns,
         data    |-> [r \in 1..Len(idx) |-> RowAt(a, idx[r]) \o RowAt(b, idx[r])]]

\* pd.concat([a, b], axis=1): the columns of a then the columns of b, over the
\* union of the row labels
ConcatCols(a, b) ==
    LET idx == UnionLabels(a.index, b.index)
    IN  [index   |-> idx,
         columns |-> a.columns \o b.columns,
         data    |-> [r \in 1..Len(idx) |-> RowAt(a, idx[r]) \o RowAt(b, idx[r])]]

\* ConcatRows concatenating along the other axis
ConcatRowsAlongColumns(a, b) == ConcatCols(a, b)

\* pd.concat([a, b], axis=0): the rows of a then the rows of b, over the union
\* of the column labels
ConcatRows(a, b) ==
    LET cols == UnionLabels(a.columns, b.columns)
        na   == NRows(a)
    IN  [index   |-> a.index \o b.index,
         columns |-> cols,
         data    |-> [r \in 1..(na + NRows(b)) |->
                        [c \in 1..Len(cols) |->
                           IF r <= na THEN CellAt(a, a.index[r], cols[c])
                           ELSE CellAt(b, b.index[r - na], cols[c])]]]

\* s[:stop] of a Series
SeriesHead(s, stop) ==
    LET pos == SlicePositions(None, <<stop>>, Len(s.index))
    IN  [index  |-> [i \in 1..Len(pos) |-> s.index[pos[i]]],
         values |-> [i \in 1..Len(pos) |-> s.values[pos[i]]],
         name   |-> s.name]

\* list[:stop]
ListHead(seq, stop) ==
    LET pos == SlicePositions(None, <<stop>>, Len(seq))
    IN  [i \in 1..Len(pos) |-> seq[pos[i]]]

----------------------------------------------------------------------------
(* The expression files the notebook is run on *)

\* gene identifiers: two that start with "A", one that starts with "Z" and ends
\* with "A", one that holds an "A" without starting with it
GeneNames == {<<"A", "1">>, <<"A", "Z">>, <<"Z", "A">>, <<"B", "A">>}

\* the i-th sample identifier, S01, S02, ...
SampleName(i) == <<"S", Digits[(i \div 10) + 1], Digits[(i % 10) + 1]>>

SampleNames == {SampleName(1), SampleName(2), SampleName(3)}

\* the header's first field, above the gene identifiers
GenesHeader == <<"G", "e", "n", "e", "s">>

\* the text of the expression value of data line r, sample column c
CellText(r, c) == <<Digits[r + 1], Digits[(c \div 10) + 1], Digits[(c % 10) + 1]>>

\* the sequences of k pairwise distinct elements of S
DistinctSeqs(S, k) ==
    {q \in [1..k -> S] : \A i, j \in 1..k : i # j => q[i] # q[j]}

\* a file in the workshop's format: a header line, then one line per gene.
\* hole is the <<line, column>> of an empty cell, <<0, 0>> for none; with extra,
\* the last data line carries one field more than the header
GridFile(genes, samples, hole, extra) ==
    LET m == Len(samples)
        cells(r) == [c \in 1..m |-> IF hole = <<r, c>> THEN <<>> ELSE CellText(r, c)]
        more(r)  == IF extra /\ r = Len(genes) THEN <<CellText(r, m + 1)>> ELSE <<>>
    IN  [exists |-> TRUE,
         lines  |-> <<Join(<<GenesHeader>> \o samples, TAB)>> \o
                    [r \in 1..Len(genes) |->
                       Join(<<genes[r]>> \o cells(r) \o more(r), TAB)]]

SmallShapes ==
    UNION {DistinctSeqs(GeneNames, n) \X DistinctSeqs(SampleNames, m) :
             n \in 0..MaxGenes, m \in 0..MaxSamples}

WideGenes == <<<<"A", "1">>, <<"Z", "A">>, <<"A", "Z">>>>

InputFiles ==
    {[exists |-> FALSE, lines |-> <<>>], [exists |-> TRUE, lines |-> <<>>]}
    \cup {GridFile(p[1], p[2], <<0, 0>>, FALSE) : p \in SmallShapes}
    \cup {GridFile(p[1], p[2], <<h[1], h[2]>>, FALSE) :
             p \in {q \in SmallShapes : Len(q[1]) > 0 /\ Len(q[2]) > 0},
             h \in (1..MaxGenes) \X (1..MaxSamples)}
    \cup {GridFile(p[1], p[2], <<0, 0>>, TRUE) :
             p \in {q \in SmallShapes : Len(q[1]) >= 2}}
    \cup {GridFile(WideGenes, [i \in 1..n |-> SampleName(i)], <<0, 0>>, FALSE) :
             n \in (MaxSamples + 1)..MaxWide}

\* the sample labels and gene labels looked up by the selection cells
SampleQueries == SampleNames \cup {SampleName(10)}

GeneQueries == GeneNames

----------------------------------------------------------------------------
(* The literals of the notebook's cells *)

\* df.index.tolist()[:5], df.columns.tolist()[:5]
ShowLabels == 5
\* profile[:3], gene_expression[:3]
ShowValues == 3
\* df.iloc[:, :10]
FirstStop == 10
\* df.iloc[:, -10:]
LastStart == -10
\* messy[:2]
ShowRows == 2
\* "Remember that we have 30 samples in our dataset"
NumSamples == 30

PrefixA == <<"A">>

PrefixZ == <<"Z">>

----------------------------------------------------------------------------
(* The pandas notebook: one action per code cell, run top to bottom; an     *)
(* exception stops the run in the cell that raised it                       *)

Printed(cell, shown) == [cell |-> cell, shown |-> shown]

NotebookInit ==
    /\ file \in InputFiles
    /\ pc = "read_csv"
    /\ err = "none"
    /\ ns = {}
    /\ out = <<>>
    /\ df = NoFrame
    /\ sample = <<>>
    /\ profile = NoSeries
    /\ gene = <<>>
    /\ gene_expression = NoSeries
    /\ profile2 = NoSeries
    /\ first_samples = NoFrame
    /\ last_samples = NoFrame
    /\ sel = <<>>
    /\ A_only = NoFrame
    /\ Z_only = NoFrame
    /\ combined = NoFrame
    /\ messy = NoFrame

Running(cell) == pc = cell /\ err = "none"

\* ReadExpressionFile with the exception of the read caught and an empty table
\* put in its place
ReadExpressionFileSwallow ==
    /\ Running("read_csv")
    /\ LET r == ReadCsv(file)
       IN  /\ df' = r.value
           /\ ns' = ns \cup {"expression_file", "df"}
           /\ out' = out \o <<Printed("read_csv", "path"),
                              Printed("read_csv", Shape(r.value)),
                              Printed("read_csv", ListHead(r.value.index, ShowLabels)),
                              Printed("read_csv", ListHead(r.value.columns, ShowLabels))>>
           /\ pc' = "select_sample"
           /\ UNCHANGED err
    /\ UNCHANGED <<file, sample, profile, gene, gene_expression, profile2,
                   first_samples, last_samples, sel, A_only, Z_only, combined, messy>>
    /\ UNCHANGED instvars

\* expression_file = ...; print path; df = pd.read_csv(...); print shape,
\* first genes, first samples
ReadExpressionFile ==
    /\ Running("read_csv")
    /\ LET r == ReadCsv(file)
       IN  IF r.error # "none"
           THEN /\ err' = r.error
                /\ out' = Append(out, Printed("read_csv", "path"))
                /\ ns' = ns \cup {"expression_file"}
                /\ UNCHANGED <<pc, df>>
           ELSE /\ df' = r.value
                /\ ns' = ns \cup {"expression_file", "df"}
                /\ out' = out \o <<Printed("read_csv", "path"),
                                   Printed("read_csv", Shape(r.value)),
                                   Printed("read_csv", ListHead(r.value.index, ShowLabels)),
                                   Printed("read_csv", ListHead(r.value.columns, ShowLabels))>>
                /\ pc' = "select_sample"
                /\ UNCHANGED err
    /\ UNCHANGED <<file, sample, profile, gene, gene_expression, profile2,
                   first_samples, last_samples, sel, A_only, Z_only, combined, messy>>
    /\ UNCHANGED instvars

\* sample = '...'; profile = df[sample]; print(profile[:3])
SelectSample ==
    /\ Running("select_sample")
    /\ \E s \in SampleQueries :
         LET r == GetItem(df, s)
         IN  /\ sample' = s
             /\ IF r.error # "none"
                THEN /\ err' = r.error
                     /\ ns' = ns \cup {"sample"}
                     /\ UNCHANGED <<pc, profile, out>>
                ELSE /\ profile' = r.value
                     /\ ns' = ns \cup {"sample", "profile"}
                     /\ out' = Append(out, Printed("select_sample",
                                                   SeriesHead(r.value, ShowValues)))
                     /\ pc' = "profile_type"
                     /\ UNCHANGED err
    /\ UNCHANGED <<file, df, gene, gene_expression, profile2,
                   first_samples, last_samples, sel, A_only, Z_only, combined, messy>>
    /\ UNCHANGED instvars

\* print(type(profile))
PrintProfileType ==
    /\ Running("profile_type")
    /\ out' = Append(out, Printed("profile_type", "Series"))
    /\ pc' = "select_gene"
    /\ UNCHANGED <<file, err, ns, df, sample, profile, gene, gene_expression, profile2,
                   first_samples, last_samples, sel, A_only, Z_only, combined, messy>>
    /\ UNCHANGED instvars

\* gene = '...'; gene_expression = df.loc[gene]; print(gene_expression[:3]); print type
SelectGene ==
    /\ Running("select_gene")
    /\ \E g \in GeneQueries :
         LET r == LocRow(df, g)
         IN  /\ gene' = g
             /\ IF r.error # "none"
                THEN /\ err' = r.error
                     /\ ns' = ns \cup {"gene"}
                     /\ UNCHANGED <<pc, gene_expression, out>>
                ELSE /\ gene_expression' = r.value
                     /\ ns' = ns \cup {"gene", "gene_expression"}
                     /\ out' = out \o <<Printed("select_gene",
                                                SeriesHead(r.value, ShowValues)),
                                        Printed("select_gene", "Series")>>
                     /\ pc' = "loc_sample"
                     /\ UNCHANGED err
    /\ UNCHANGED <<file, df, sample, profile, profile2,
                   first_samples, last_samples, sel, A_only, Z_only, combined, messy>>
    /\ UNCHANGED instvars

\* sample = '...' (the same literal); profile2 = df.loc[:, sample];
\* print(profile.equals(profile2))
LocSample ==
    /\ Running("loc_sample")
    /\ LET r == LocCol(df, sample)
       IN  IF r.error # "none"
           THEN /\ err' = r.error
                /\ UNCHANGED <<pc, ns, profile2, out>>
           ELSE /\ profile2' = r.value
                /\ ns' = ns \cup {"profile2"}
                /\ out' = Append(out, Printed("loc_sample",
                                              SeriesEquals(profile, r.value)))
                /\ pc' = "first_samples"
                /\ UNCHANGED err
    /\ UNCHANGED <<file, df, sample, profile, gene, gene_expression,
                   first_samples, last_samples, sel, A_only, Z_only, combined, messy>>
    /\ UNCHANGED instvars

\* first_samples = df.iloc[:, :10]; print(first_samples.shape)
FirstSamples ==
    /\ Running("first_samples")
    /\ first_samples' = ILocCols(df, None, <<FirstStop>>)
    /\ ns' = ns \cup {"first_samples"}
    /\ out' = Append(out, Printed("first_samples", Shape(first_samples')))
    /\ pc' = "last_samples"
    /\ UNCHANGED <<file, err, df, sample, profile, gene, gene_expression, profile2,
                   last_samples, sel, A_only, Z_only, combined, messy>>
    /\ UNCHANGED instvars

\* last_samples = df.iloc[:, -10:]; print(last_samples.shape)
LastSamples ==
    /\ Running("last_samples")
    /\ last_samples' = ILocCols(df, <<LastStart>>, None)
    /\ ns' = ns \cup {"last_samples"}
    /\ out' = Append(out, Printed("last_samples", Shape(last_samples')))
    /\ pc' = "starts_with_A"
    /\ UNCHANGED <<file, err, df, sample, profile, gene, gene_expression, profile2,
                   first_samples, sel, A_only, Z_only, combined, messy>>
    /\ UNCHANGED instvars

\* sel = df.index.str.startswith('A'); print(type(sel)); print(sel.sum())
StartsWithA ==
    /\ Running("starts_with_A")
    /\ sel' = IndexStartsWith(df, PrefixA)
    /\ ns' = ns \cup {"sel"}
    /\ out' = out \o <<Printed("starts_with_A", "ndarray"),
                       Printed("starts_with_A", MaskSum(sel'))>>
    /\ pc' = "select_A"
    /\ UNCHANGED <<file, err, df, sample, profile, gene, gene_expression, profile2,
                   first_samples, last_samples, A_only, Z_only, combined, messy>>
    /\ UNCHANGED instvars

\* SelectAOnly filtering df in place: df itself is cut down to the selected rows
SelectAOnlyInPlace ==
    /\ Running("select_A")
    /\ df' = LocMask(df, sel)
    /\ A_only' = df'
    /\ ns' = ns \cup {"A_only"}
    /\ out' = Append(out, Printed("select_A", Shape(A_only')))
    /\ pc' = "concat_rows"
    /\ UNCHANGED <<file, err, sample, profile, gene, gene_expression, profile2,
                   first_samples, last_samples, sel, Z_only, combined, messy>>
    /\ UNCHANGED instvars

\* A_only = df.loc[sel]; print(A_only.shape)
SelectAOnly ==
    /\ Running("select_A")
    /\ A_only' = LocMask(df, sel)
    /\ ns' = ns \cup {"A_only"}
    /\ out' = Append(out, Printed("select_A", Shape(A_only')))
    /\ pc' = "concat_rows"
    /\ UNCHANGED <<file, err, df, sample, profile, gene, gene_expression, profile2,
                   first_samples, last_samples, sel, Z_only, combined, messy>>
    /\ UNCHANGED instvars

\* Z_only = df.loc[df.index.str.startswith('Z')]; print(Z_only.shape);
\* combined = pd.concat([A_only, Z_only], axis=0); print(combined.shape)
ConcatAlongRows ==
    /\ Running("concat_rows")
    /\ Z_only' = LocMask(df, IndexStartsWith(df, PrefixZ))
    /\ combined' = ConcatRows(A_only, Z_only')
    /\ ns' = ns \cup {"Z_only", "combined"}
    /\ out' = out \o <<Printed("concat_rows", Shape(Z_only')),
                       Printed("concat_rows", Shape(combined'))>>
    /\ pc' = "concat_cols"
    /\ UNCHANGED <<file, err, df, sample, profile, gene, gene_expression, profile2,
                   first_samples, last_samples, sel, A_only, messy>>
    /\ UNCHANGED instvars

\* messy = pd.concat([A_only, Z_only], axis=1); print(messy.shape)
ConcatAlongColumns ==
    /\ Running("concat_cols")
    /\ messy' = ConcatCols(A_only, Z_only)
    /\ ns' = ns \cup {"messy"}
    /\ out' = Append(out, Printed("concat_cols", Shape(messy')))
    /\ pc' = "messy_head"
    /\ UNCHANGED <<file, err, df, sample, profile, gene, gene_expression, profile2,
                   first_samples, last_samples, sel, A_only, Z_only, combined>>
    /\ UNCHANGED instvars

\* print(messy[:2])
PrintMessyHead ==
    /\ Running("messy_head")
    /\ out' = Append(out, Printed("messy_head", HeadRows(messy, ShowRows)))
    /\ pc' = "done"
    /\ UNCHANGED <<file, err, ns, df, sample, profile, gene, gene_expression, profile2,
                   first_samples, last_samples, sel, A_only, Z_only, combined, messy>>
    /\ UNCHANGED instvars

----------------------------------------------------------------------------
(* The installation walkthroughs: one action per command or check of the    *)
(* document, taken in the order the document lists them                     *)

Envs == {"root", "testenv"}

Packages == {"numpy", "scipy", "scikit-learn", "pandas"}

\* WindowsSteps with sections 1 and 2 in the other order
WindowsStepsPipFirst ==
    <<"activate", "pip_install_scikit_learn", "import_sklearn",
      "conda_install_scipy", "import_scipy",
      "import_pandas", "congratulations">>

\* the commands and checks the Windows document lists: its step 3 names pip and
\* gives the import check, but lists no install command
WindowsSteps ==
    <<"activate", "conda_install_scipy", "import_scipy",
      "pip_install_scikit_learn", "import_sklearn",
      "import_pandas", "congratulations">>

\* the commands and checks of the second document
OtherSteps ==
    <<"activate", "pip_install_scikit_learn", "import_sklearn",
      "pip_install_pandas", "import_pandas", "congratulations">>

Steps == IF walkthrough = "windows" THEN WindowsSteps ELSE OtherSteps

\* conda install scipy: scipy "and all of the packages it depends on"
CondaInstallScipy(pkgs) == pkgs \cup {"numpy", "scipy"}

\* the requirements a package declares to pip
PipRequires(pkg) == IF pkg = "pandas" THEN {"numpy"} ELSE {}

\* pip install pkg
PipInstall(pkgs, pkg) == pkgs \cup {pkg} \cup PipRequires(pkg)

\* what a module needs in the environment for its import to succeed
Needs(module) ==
    CASE module = "scipy"   -> {"numpy", "scipy"}
      [] module = "sklearn" -> {"numpy", "scipy", "scikit-learn"}
      [] module = "pandas"  -> {"numpy", "pandas"}

\* "import module" raises no error
CanImport(module, pkgs) == Needs(module) \subseteq pkgs

NotebookIdle ==
    /\ file = [exists |-> FALSE, lines |-> <<>>]
    /\ pc = "read_csv"
    /\ err = "none"
    /\ ns = {}
    /\ out = <<>>
    /\ df = NoFrame
    /\ sample = <<>>
    /\ profile = NoSeries
    /\ gene = <<>>
    /\ gene_expression = NoSeries
    /\ profile2 = NoSeries
    /\ first_samples = NoFrame
    /\ last_samples = NoFrame
    /\ sel = <<>>
    /\ A_only = NoFrame
    /\ Z_only = NoFrame
    /\ combined = NoFrame
    /\ messy = NoFrame

InstallIdle ==
    /\ walkthrough = "windows"
    /\ ipc = 1
    /\ active = "root"
    /\ installed = [e \in Envs |-> {}]
    /\ imports = <<>>

\* any environment to start from: either one active, testenv holding any of the
\* packages already, root holding numpy or not
InstallInit ==
    /\ walkthrough \in {"windows", "other"}
    /\ ipc = 1
    /\ active \in Envs
    /\ installed \in {f \in [Envs -> SUBSET Packages] : f["root"] \subseteq {"numpy"}}
    /\ imports = <<>>

AtStep(step) == ipc <= Len(Steps) /\ Steps[ipc] = step

\* activate testenv
Activate ==
    /\ AtStep("activate")
    /\ active' = "testenv"
    /\ ipc' = ipc + 1
    /\ UNCHANGED <<walkthrough, installed, imports>>
    /\ UNCHANGED nbvars

\* conda install scipy
CondaInstall ==
    /\ AtStep("conda_install_scipy")
    /\ installed' = [installed EXCEPT ![active] = CondaInstallScipy(@)]
    /\ ipc' = ipc + 1
    /\ UNCHANGED <<walkthrough, active, imports>>
    /\ UNCHANGED nbvars

\* pip install scikit-learn
PipInstallScikitLearn ==
    /\ AtStep("pip_install_scikit_learn")
    /\ installed' = [installed EXCEPT ![active] = PipInstall(@, "scikit-learn")]
    /\ ipc' = ipc + 1
    /\ UNCHANGED <<walkthrough, active, imports>>
    /\ UNCHANGED nbvars

\* pip install pandas
PipInstallPandas ==
    /\ AtStep("pip_install_pandas")
    /\ installed' = [installed EXCEPT ![active] = PipInstall(@, "pandas")]
    /\ ipc' = ipc + 1
    /\ UNCHANGED <<walkthrough, active, imports>>
    /\ UNCHANGED nbvars

ImportCheck(step, module) ==
    /\ AtStep(step)
    /\ imports' = Append(imports, [module |-> module,
                                   ok     |-> CanImport(module, installed[active])])
    /\ ipc' = ipc + 1
    /\ UNCHANGED <<walkthrough, active, installed>>
    /\ UNCHANGED nbvars

\* import scipy
ImportScipy == ImportCheck("import_scipy", "scipy")

\* import sklearn
ImportSklearn == ImportCheck("import_sklearn", "sklearn")

\* import pandas
ImportPandas == ImportCheck("import_pandas", "pandas")

\* "Congratulations! You've just installed two super-powerful Python packages!"
Congratulations ==
    /\ AtStep("congratulations")
    /\ ipc' = ipc + 1
    /\ UNCHANGED <<walkthrough, active, installed, imports>>
    /\ UNCHANGED nbvars

InstallDone == ipc = Len(Steps) + 1

Init == NotebookInit /\ InstallIdle

Next ==
    \/ ReadExpressionFile
    \/ SelectSample
    \/ PrintProfileType
    \/ SelectGene
    \/ LocSample
    \/ FirstSamples
    \/ LastSamples
    \/ StartsWithA
    \/ SelectAOnly
    \/ ConcatAlongRows
    \/ ConcatAlongColumns
    \/ PrintMessyHead

Spec == Init /\ [][Next]_vars

InitInstall == NotebookIdle /\ InstallInit

NextInstall ==
    \/ Activate
    \/ CondaInstall
    \/ PipInstallScikitLearn
    \/ PipInstallPandas
    \/ ImportScipy
    \/ ImportSklearn
    \/ ImportPandas
    \/ Congratulations

SpecInstall == InitInstall /\ [][NextInstall]_vars

----------------------------------------------------------------------------
(* Properties of the pandas notebook, checked under Spec *)

\* the positions of a NaN cell in the rows of a table, as <<row, column>>
NaNCells(d) ==
    {rc \in (1..NRows(d)) \X (1..NCols(d)) : IsNaN(d.data[rc[1]][rc[2]])}

\* C1: once both selections of the sample's column have run, df[sample] and
\* df.loc[:, sample] have the same row labels in the same order, the same values
\* and the same name, the cell printed True, and the same holds of every column
\* label of the loaded table.
C1_ColumnSelectionsAgree ==
    /\ "profile2" \in ns =>
          /\ profile2.index = profile.index
          /\ profile2.values = profile.values
          /\ profile2.name = profile.name
          /\ SeriesEquals(profile, profile2)
          /\ \E i \in 1..Len(out) : out[i].cell = "loc_sample" /\ out[i].shown = TRUE
    /\ "df" \in ns =>
          \A s \in Labels(df.columns) :
              /\ GetItem(df, s).error = "none"
              /\ LocCol(df, s).error = "none"
              /\ LocCol(df, s).value = GetItem(df, s).value
              /\ SeriesEquals(GetItem(df, s).value, LocCol(df, s).value)

\* both selections have run on a column that holds a number and a missing value
C1_Witness ==
    /\ "profile2" \in ns
    /\ pc = "first_samples"
    /\ \E i, j \in 1..Len(profile.values) :
          IsNaN(profile.values[i]) /\ ~IsNaN(profile.values[j])

\* C2: after the concatenation along the columns, A_only and Z_only share no row
\* label, messy has rows(A_only) + rows(Z_only) rows, each row label of either
\* input once, and cols(A_only) + cols(Z_only) columns; a cell holds NaN where
\* its row label is absent from the table that contributed its column, and the
\* value of that table at its row label and column otherwise.
C2_ConcatColumnsAligns ==
    "messy" \in ns =>
       LET na == NCols(A_only)
           src(c) == IF c <= na THEN A_only ELSE Z_only
           col(c) == IF c <= na THEN c ELSE c - na
       IN  /\ Labels(A_only.index) \cap Labels(Z_only.index) = {}
           /\ NRows(messy) = NRows(A_only) + NRows(Z_only)
           /\ NCols(messy) = NCols(A_only) + NCols(Z_only)
           /\ Labels(messy.index) = Labels(A_only.index) \cup Labels(Z_only.index)
           /\ messy.columns = A_only.columns \o Z_only.columns
           /\ \A r \in 1..NRows(messy), c \in 1..NCols(messy) :
                 LET g == messy.index[r]
                 IN  IF g \in Labels(src(c).index)
                     THEN messy.data[r][c] =
                             src(c).data[GetLoc(src(c).index, g)][col(c)]
                     ELSE IsNaN(messy.data[r][c])
           /\ \E i \in 1..Len(out) :
                 /\ out[i].cell = "concat_cols"
                 /\ out[i].shown = <<NRows(A_only) + NRows(Z_only),
                                     NCols(A_only) + NCols(Z_only)>>

\* the concatenation along the columns has run on an A-row and a Z-row with a
\* column each: the A-row holds a number under A_only and NaN under Z_only
C2_Witness ==
    /\ "messy" \in ns
    /\ NRows(A_only) >= 2
    /\ NRows(Z_only) >= 1
    /\ NCols(A_only) >= 1
    /\ \E r \in 1..NRows(messy) :
          /\ messy.index[r] \in Labels(A_only.index)
          /\ ~IsNaN(messy.data[r][1])
          /\ IsNaN(messy.data[r][NCols(A_only) + 1])

\* C3: after the concatenation along the rows, A_only and Z_only have the same
\* column labels, combined has rows(A_only) + rows(Z_only) rows, the rows of
\* A_only then those of Z_only, and exactly the inputs' column labels; no cell is
\* missing that is not missing in its input.
C3_ConcatRowsAppends ==
    "combined" \in ns =>
       /\ A_only.columns = Z_only.columns
       /\ NRows(combined) = NRows(A_only) + NRows(Z_only)
       /\ combined.columns = A_only.columns
       /\ NCols(combined) = NCols(A_only)
       /\ combined.index = A_only.index \o Z_only.index
       /\ combined.data = A_only.data \o Z_only.data
       /\ Cardinality(NaNCells(combined)) =
             Cardinality(NaNCells(A_only)) + Cardinality(NaNCells(Z_only))

\* the concatenation along the rows has run on two non-empty tables with columns
C3_Witness ==
    /\ "combined" \in ns
    /\ NRows(A_only) >= 1
    /\ NRows(Z_only) >= 1
    /\ NCols(combined) >= 2
    /\ NaNCells(combined) # {}

\* the number of fields of a line: one more than its separators
FieldCount(line) == 1 + Cardinality({i \in 1..Len(line) : line[i] = TAB})

\* a well-formed file: it exists, has a header line, and every line has as many
\* fields as the header
WellFormed(f) ==
    /\ f.exists
    /\ Len(f.lines) >= 1
    /\ \A k \in 1..Len(f.lines) : FieldCount(f.lines[k]) = FieldCount(f.lines[1])

\* the decimal digits of a natural number
RECURSIVE DecimalText(_)
DecimalText(n) ==
    IF n < 10 THEN <<Digits[n + 1]>>
    ELSE Append(DecimalText(n \div 10), Digits[(n % 10) + 1])

\* the text of a cell: nothing for a missing value
CellAsText(x) == IF IsNaN(x) THEN <<>> ELSE DecimalText(x[1])

\* the lines that hold a table: the header (first, then the column labels), then
\* per row its label and its cells, tab-separated
TableLines(d, first) ==
    <<Join(<<first>> \o d.columns, TAB)>> \o
    [r \in 1..NRows(d) |->
       Join(<<d.index[r]>> \o [c \in 1..NCols(d) |-> CellAsText(d.data[r][c])], TAB)]

\* C4: the table read from a well-formed file has one row per data line and one
\* column per header field after the first; its column labels are those header
\* fields in file order, its row labels the first fields of the data lines in
\* file order, and each cell the value written at that line and field: writing
\* the labels and cells back out, tab-separated, gives the lines of the file.
C4_ReadCsvLayout ==
    "df" \in ns /\ WellFormed(file) =>
       /\ Shape(df) = <<Len(file.lines) - 1, FieldCount(file.lines[1]) - 1>>
       /\ \A r \in 1..NRows(df) : Len(df.data[r]) = NCols(df)
       /\ TableLines(df, GenesHeader) = file.lines

\* a file of three genes and two samples, one cell empty, has been read
C4_Witness ==
    /\ "df" \in ns
    /\ WellFormed(file)
    /\ Shape(df) = <<3, 2>>
    /\ Cardinality(NaNCells(df)) = 1

\* C5: df[sample] is a labelled vector over the table's row labels, named by the
\* sample; df.loc[gene] is a labelled vector over the table's column labels,
\* named by the gene; each element is the table's cell at its (gene, sample),
\* so both vectors hold the same value at the selected gene and sample.
C5_LabelSelection ==
    /\ "profile" \in ns =>
          /\ profile.index = df.index
          /\ profile.name = sample
          /\ Len(profile.values) = Len(profile.index)
          /\ \A r \in 1..NRows(df) :
                profile.values[r] = df.data[r][GetLoc(df.columns, sample)]
    /\ "gene_expression" \in ns =>
          /\ gene_expression.index = df.columns
          /\ gene_expression.name = gene
          /\ Len(gene_expression.values) = Len(gene_expression.index)
          /\ \A c \in 1..NCols(df) :
                gene_expression.values[c] = df.data[GetLoc(df.index, gene)][c]
          /\ profile.values[GetLoc(df.index, gene)] =
                gene_expression.values[GetLoc(df.columns, sample)]

\* a column and a row have been selected from a table with two rows and two
\* columns, neither selection the first of its axis
C5_Witness ==
    /\ "gene_expression" \in ns
    /\ NRows(df) >= 2
    /\ NCols(df) >= 2
    /\ GetLoc(df.index, gene) > 1
    /\ GetLoc(df.columns, sample) > 1

\* C6: df.loc[sel] holds exactly the rows of df whose gene label starts with
\* "A", in their order in df and with every column of df: as many rows as sel
\* has True entries, as many columns as df.
C6_MaskSelection ==
    "A_only" \in ns =>
       LET starts(g) == Len(g) >= 1 /\ g[1] = "A"
       IN  /\ Len(sel) = NRows(df)
           /\ \A i \in 1..NRows(df) : sel[i] <=> starts(df.index[i])
           /\ NRows(A_only) = MaskSum(sel)
           /\ NRows(A_only) = Cardinality({i \in 1..NRows(df) : starts(df.index[i])})
           /\ A_only.columns = df.columns
           /\ NCols(A_only) = NCols(df)
           /\ Labels(A_only.index) = {g \in Labels(df.index) : starts(g)}
           /\ \A i, j \in 1..NRows(A_only) :
                 i < j => GetLoc(df.index, A_only.index[i]) <
                          GetLoc(df.index, A_only.index[j])
           /\ \A i \in 1..NRows(A_only) :
                 A_only.data[i] = df.data[GetLoc(df.index, A_only.index[i])]

\* the mask has selected two of three rows, a row that does not start with "A"
\* lying between them
C6_Witness ==
    /\ "A_only" \in ns
    /\ NRows(df) = 3
    /\ NRows(A_only) = 2
    /\ ~sel[2]
    /\ NCols(df) >= 1

\* C7: df.iloc[:, :10] holds every row and the first 10 columns of df, and
\* df.iloc[:, -10:] every row and the last 10 columns (all of them when df has
\* fewer), in the order of df; for a table of 30 samples both have 10 columns
\* and no column in common.
C7_PositionalSlices ==
    "last_samples" \in ns =>
       LET n == NCols(df)
           k == Min(10, n)
       IN  /\ first_samples.index = df.index
           /\ last_samples.index = df.index
           /\ first_samples.columns = SubSeq(df.columns, 1, k)
           /\ last_samples.columns = SubSeq(df.columns, n - k + 1, n)
           /\ \A r \in 1..NRows(df) :
                 /\ first_samples.data[r] = SubSeq(df.data[r], 1, k)
                 /\ last_samples.data[r] = SubSeq(df.data[r], n - k + 1, n)
           /\ n = NumSamples =>
                 /\ Shape(first_samples) = <<NRows(df), 10>>
                 /\ Shape(last_samples) = <<NRows(df), 10>>
                 /\ Labels(first_samples.columns) \cap Labels(last_samples.columns) = {}
           /\ \E i, j \in 1..Len(out) :
                 /\ out[i].cell = "first_samples" /\ out[i].shown = <<NRows(df), k>>
                 /\ out[j].cell = "last_samples" /\ out[j].shown = <<NRows(df), k>>

\* both slices have been taken of a table of 30 samples
C7_Witness ==
    /\ "last_samples" \in ns
    /\ NCols(df) = NumSamples
    /\ NRows(df) >= 1

\* the read of the file raised
ReadFailed == pc = "read_csv" /\ err # "none"

\* C8: a file that is missing or malformed (no header line, a data line with
\* more fields than the header) is never read into a table: the read cell ends
\* the run with the library's error, after which no step is taken (no retry, no
\* recovery, no later cell); no table df is bound and nothing is printed by a
\* cell after the read.
C8_ReadFailureStopsRun ==
    /\ ReadFailed =>
          /\ err = ReadCsv(file).error
          /\ err \in {"FileNotFoundError", "EmptyDataError", "ParserError"}
          /\ ~ENABLED Next
    /\ (~file.exists \/ ~WellFormed(file)) =>
          /\ pc = "read_csv"
          /\ out # <<>> => ReadFailed
          /\ "df" \notin ns
          /\ df = NoFrame
          /\ ns \subseteq {"expression_file"}
          /\ \A i \in 1..Len(out) : out[i].cell = "read_csv"

\* the read has failed on a data line with too many fields
C8_Witness == ReadFailed /\ err = "ParserError" /\ ~WellFormed(file) /\ out # <<>>

----------------------------------------------------------------------------
(* Properties of the installation walkthrough, checked under SpecInstall *)

InstallSteps == {"conda_install_scipy", "pip_install_scikit_learn", "pip_install_pandas"}

\* C9: in the Windows walkthrough every install step is taken with testenv
\* active, and the pip install of scikit-learn is taken only in an environment
\* that holds scipy already (the conda install of scipy precedes it).
C9_ScipyBeforeScikitLearn ==
    [][(walkthrough = "windows" /\ ipc' = ipc + 1 /\ Steps[ipc] \in InstallSteps) =>
          /\ active = "testenv"
          /\ Steps[ipc] = "pip_install_scikit_learn" =>
                /\ "scipy" \in installed[active]
                /\ \E k \in 1..(ipc - 1) : Steps[k] = "conda_install_scipy"]_vars

\* the Windows walkthrough has just taken its pip install of scikit-learn, with
\* testenv active and holding exactly numpy, scipy and scikit-learn
C9_Witness ==
    /\ walkthrough = "windows"
    /\ ipc > 1
    /\ Steps[ipc - 1] = "pip_install_scikit_learn"
    /\ installed["testenv"] = {"numpy", "scipy", "scikit-learn"}
    /\ active = "testenv"

\* C10: at the end of the Windows walkthrough the three import checks of scipy,
\* sklearn and pandas have been run and all have succeeded.
C10_AllImportsSucceed ==
    (walkthrough = "windows" /\ InstallDone) =>
       /\ {imports[i].module : i \in 1..Len(imports)} = {"scipy", "sklearn", "pandas"}
       /\ \A i \in 1..Len(imports) : imports[i].ok

----------------------------------------------------------------------------
(* Frame of the loaded table, checked under Spec *)

\* C11: no cell after the read modifies df: in every state in which df is
\* bound, after any number of the later cells (selections, slices, mask
\* selection, both concatenations), df is the table the read produced from the
\* file, with the row labels, column labels and cells the file holds.
C11_LoadedTableUnchanged ==
    "df" \in ns =>
       /\ df = ReadCsv(file).value
       /\ TableLines(df, GenesHeader) = file.lines

\* every cell has run on a table of which the mask selection, the slices and
\* the concatenations each produced a table different from df
C11_Witness ==
    /\ pc = "done"
    /\ NRows(df) = 3
    /\ NCols(df) = NumSamples
    /\ A_only # df
    /\ Z_only # df
    /\ first_samples # df
    /\ last_samples # df
    /\ combined # df
    /\ messy # df

====
